---- MODULE Spec2Model ----
(***************************************************************************)
(* A model of convert.py: the front-matter splitter (parse), the pipeline  *)
(* entry point (convtoconf) and the ConfluenceRenderer callbacks and       *)
(* layout.                                                                 *)
(*                                                                         *)
(* Text and markup are sequences of one-character strings, so that what    *)
(* the code does to a string (strip, split, format, concatenate) is done    *)
(* to its characters.                                                      *)
(***************************************************************************)
EXTENDS Naturals, Sequences, FiniteSets, TLC

VARIABLES
    post,           \* parse: the lines of the file, as readlines() yields them
    idx,            \* parse: the index of the next line the loop reads
    raw_yaml,       \* parse: the metadata buffer
    markdown,       \* parse: the body buffer; after parse, the returned body
    in_yaml,        \* parse: the in-metadata flag
    front_matter,   \* the value yaml.load returned / convtoconf was given
    pc,             \* where the program is; the exception that ended it
    tokens,         \* the constructs mistune found in the body, document order
    tk,             \* the index of the next construct to render
    attachments,    \* renderer.attachments
    authors,        \* renderer.authors
    has_toc,        \* renderer.has_toc
    sidebar,        \* renderer.sidebar
    content,        \* the markup mistune has put together so far
    ret,            \* what the last renderer callback returned
    page_html,      \* convtoconf: the page markup returned
    out_attachments,\* convtoconf: the attachment list returned
    calls,          \* the number of convtoconf calls begun
    default_front_matter  \* the dict that is convtoconf's default argument

vars == <<post, idx, raw_yaml, markdown, in_yaml, front_matter, pc, tokens, tk,
          attachments, authors, has_toc, sidebar, content, ret, page_html,
          out_attachments, calls, default_front_matter>>

parseVars == <<post, idx, raw_yaml, markdown, in_yaml>>
rendererVars == <<attachments, authors, has_toc, sidebar>>
renderVars == <<tokens, tk, rendererVars, content, ret, page_html,
                out_attachments, calls, default_front_matter>>

-----------------------------------------------------------------------------
(* Bounds of the model.                                                    *)

MaxLines == 4       \* lines of a document given to parse
MaxTokens == 3      \* constructs of one document body
MaxCalls == 2       \* convtoconf calls in a row
MaxAlt == 4         \* characters of an image's alt text
MaxCode == 4        \* characters of a code block

-----------------------------------------------------------------------------
(* Text.                                                                   *)

Whitespace == {" ", "\n", "\t"}

RECURSIVE LStrip(_)
LStrip(s) ==
    IF s # <<>> /\ Head(s) \in Whitespace THEN LStrip(Tail(s)) ELSE s

RECURSIVE RStrip(_)
RStrip(s) ==
    IF s # <<>> /\ s[Len(s)] \in Whitespace
    THEN RStrip(SubSeq(s, 1, Len(s) - 1))
    ELSE s

\* str.strip()
Strip(s) == RStrip(LStrip(s))

\* The concatenation of the lines ls[from..to].
RECURSIVE Concat(_, _, _)
Concat(ls, from, to) ==
    IF from > to THEN <<>> ELSE ls[from] \o Concat(ls, from + 1, to)

\* The sequences over S of length at most n.
SeqsUpTo(S, n) == UNION {[1..k -> S] : k \in 0..n}

\* Whether the text pat occurs in s at position i.
OccursAt(s, pat, i) ==
    /\ i >= 1
    /\ i + Len(pat) - 1 <= Len(s)
    /\ pat # <<>> => s[i] = pat[1]
    /\ SubSeq(s, i, i + Len(pat) - 1) = pat

\* The positions at which pat occurs in s.
Occurrences(s, pat) == {i \in 1..Len(s) : OccursAt(s, pat, i)}

Min(S) == CHOOSE m \in S : \A n \in S : m <= n
Max(S) == CHOOSE m \in S : \A n \in S : m >= n

-----------------------------------------------------------------------------
(* parse: the front-matter splitter.                                       *)

YAML_BOUNDARY == <<"-", "-", "-">>

\* Line 23-24 of parse with the flag and the buffer it reads: the line is the
\* tag that ends the metadata block.
IsEndingTagNoBuffer(line, inYaml, rawYaml) ==
    Strip(line) = YAML_BOUNDARY /\ inYaml

IsEndingTag(line, inYaml, rawYaml) ==
    Strip(line) = YAML_BOUNDARY /\ inYaml /\ rawYaml # <<>>

-----------------------------------------------------------------------------
(* yaml.load, as far as parse and convtoconf depend on it.                 *)

\* The characters of a string literal.
Chars(str) == [i \in 1..Len(str) |-> SubSeq(str, i, i)]

\* A parsed author_keys value: null, or a sequence of user keys.
NoKeys == [kind |-> "none", items |-> <<>>]
KeyList(items) == [kind |-> "list", items |-> items]

\* A value yaml.load can return: a mapping (with the keys it holds), None, a
\* string or a list.
Mapping(keys, ak, sb) ==
    [kind |-> "map", keys |-> keys, author_keys |-> ak, sidebar |-> sb]
EmptyMapping == Mapping({}, NoKeys, FALSE)
NonMapping(kind) ==
    [kind |-> kind, keys |-> {}, author_keys |-> NoKeys, sidebar |-> FALSE]
None == NonMapping("none")

\* The outcome of a call: a value returned or an exception raised.
Returned(v) == [raised |-> FALSE, value |-> v]
Raised == [raised |-> TRUE, value |-> None]

\* Every outcome yaml.load can have for some buffer.
YamlOutcomes ==
    {Returned(Mapping(keys, ak, sb)) :
        keys \in SUBSET {"author_keys", "sidebar"},
        ak \in {NoKeys, KeyList(<<>>), KeyList(<<Chars("a1")>>)},
        sb \in BOOLEAN}
    \cup {Returned(None), Returned(NonMapping("str")), Returned(NonMapping("list")),
          Raised}

\* The text s cut at every "\n": the lines without their line ends (a last
\* line without a line end included).
RECURSIVE LinesFrom(_, _)
LinesFrom(s, from) ==
    LET ends == {i \in from..Len(s) : s[i] = "\n"}
    IN  IF from > Len(s) THEN <<>>
        ELSE IF ends = {} THEN <<SubSeq(s, from, Len(s))>>
        ELSE <<SubSeq(s, from, Min(ends) - 1)>> \o LinesFrom(s, Min(ends) + 1)

SplitLines(s) == LinesFrom(s, 1)

\* The lines of a YAML document that carry content: without the leading
\* document-start marker and without blank lines.
YamlContentLines(buf) ==
    LET ls == SplitLines(buf)
        body == IF ls # <<>> /\ RStrip(ls[1]) = YAML_BOUNDARY THEN Tail(ls) ELSE ls
    IN  SelectSeq(body, LAMBDA l : Strip(l) # <<>>)

\* The block-mapping entries of the keys convtoconf reads, each with the value
\* YAML gives it.
SidebarEntries ==
    {<<Chars("sidebar: true"), TRUE>>, <<Chars("sidebar: false"), FALSE>>}
AuthorEntries ==
    {<<Chars("author_keys: [a1]"), KeyList(<<Chars("a1")>>)>>,
     <<Chars("author_keys: [a1, u2]"), KeyList(<<Chars("a1"), Chars("u2")>>)>>,
     <<Chars("author_keys: []"), KeyList(<<>>)>>,
     <<Chars("author_keys:"), NoKeys>>}
EntryLines == {e[1] : e \in SidebarEntries \cup AuthorEntries}

\* The last value a block mapping gives a key (YAML keeps the last of a
\* repeated key), dflt when the key is absent.
RECURSIVE LastValue(_, _, _)
LastValue(ls, entries, dflt) ==
    IF ls = <<>> THEN dflt
    ELSE LET l == RStrip(ls[Len(ls)])
         IN  IF \E e \in entries : e[1] = l
             THEN (CHOOSE e \in entries : e[1] = l)[2]
             ELSE LastValue(SubSeq(ls, 1, Len(ls) - 1), entries, dflt)

IsPlainWord(l) == l # <<>> /\ \A i \in 1..Len(l) : l[i] \in {"a", "b", "c", "h", "e", "l", "o", "x"}

\* yaml.load(raw_yaml, Loader=yaml.SafeLoader): the outcomes possible for the
\* buffer.  A document without content is None, a block mapping of known
\* entries is that mapping, one plain word is a string; for any other buffer
\* the library decides, and every outcome is possible.
yaml_load(buf) ==
    LET ls == YamlContentLines(buf)
        n == Len(ls)
    IN  IF n = 0 THEN {Returned(None)}
        ELSE IF \A i \in 1..n : RStrip(ls[i]) \in EntryLines
        THEN {Returned(Mapping(
                 {"sidebar" : i \in {j \in 1..n :
                      \E e \in SidebarEntries : e[1] = RStrip(ls[j])}}
                 \cup {"author_keys" : i \in {j \in 1..n :
                      \E e \in AuthorEntries : e[1] = RStrip(ls[j])}},
                 LastValue(ls, AuthorEntries, NoKeys),
                 LastValue(ls, SidebarEntries, FALSE)))}
        ELSE IF n = 1 /\ IsPlainWord(ls[1]) THEN {Returned(NonMapping("str"))}
        ELSE YamlOutcomes

-----------------------------------------------------------------------------
(* The constructs mistune hands to the renderer.                           *)

\* A construct of the body: a header (text, level), a code block (text is the
\* code, alt the language), an image (text is the src, alt the alt text) or
\* any other construct, which mistune's own renderer handles (text).
Token(kind, text, alt, level) ==
    [kind |-> kind, text |-> text, alt |-> alt, level |-> level]

HeaderToken(text, level) == Token("header", text, <<>>, level)
CodeToken(code, lang) == Token("block_code", code, lang, "0")
ImageToken(src, altText) == Token("image", src, altText, "0")
OtherToken(text) == Token("other", text, <<>>, "0")

-----------------------------------------------------------------------------
(* ConfluenceRenderer.image.                                               *)

Letters ==
    {"a", "b", "c", "d", "e", "f", "g", "h", "i", "j", "k", "l", "m", "n", "o",
     "p", "q", "r", "s", "t", "u", "v", "w", "x", "y", "z"}
Digits == {"0", "1", "2", "3", "4", "5", "6", "7", "8", "9"}

\* urllib.parse: the characters of a URL scheme.
SchemeChars == Letters \cup Digits \cup {"+", "-", "."}

\* The index of the first element of s that is in S, 0 when there is none.
FirstIn(s, S) ==
    LET I == {i \in 1..Len(s) : s[i] \in S}
    IN  IF I = {} THEN 0 ELSE Min(I)

\* urlsplit: the URL without its scheme (the text up to the first ":", when
\* that text is not empty and made of scheme characters only).
AfterScheme(url) ==
    LET i == FirstIn(url, {":"})
    IN  IF i > 1 /\ \A j \in 1..(i - 1) : url[j] \in SchemeChars
        THEN SubSeq(url, i + 1, Len(url))
        ELSE url

\* urlparse(src).netloc: what follows a leading "//" (after the scheme), up
\* to the next "/", "?" or "#".
Netloc(url) ==
    LET rest == AfterScheme(url)
    IN  IF Len(rest) >= 2 /\ rest[1] = "/" /\ rest[2] = "/"
        THEN LET tail == SubSeq(rest, 3, Len(rest))
                 delim == FirstIn(tail, {"/", "?", "#"})
             IN  IF delim = 0 THEN tail ELSE SubSeq(tail, 1, delim - 1)
        ELSE <<>>

\* Line 151.
is_external(src) == Netloc(src) # <<>>

\* os.path.basename: what follows the last "/".
Basename(path) ==
    LET I == {i \in 1..Len(path) : path[i] = "/"}
    IN  IF I = {} THEN path ELSE SubSeq(path, Max(I) + 1, Len(path))

\* str.split(sep) for a separator of one character.
RECURSIVE Split(_, _, _)
Split(s, sep, cur) ==
    IF s = <<>> THEN <<cur>>
    ELSE IF Head(s) = sep THEN <<cur>> \o Split(Tail(s), sep, <<>>)
    ELSE Split(Tail(s), sep, Append(cur, Head(s)))

\* int(s) does not raise: optional whitespace around an optional sign and
\* digits.
IntParses(s) ==
    LET t == Strip(s)
        u == IF t # <<>> /\ t[1] \in {"+", "-"} THEN Tail(t) ELSE t
    IN  u # <<>> /\ \A i \in 1..Len(u) : u[i] \in Digits

\* What extract_height_width gives: the two values (absent is a value of its
\* own, as None is not the empty string), or an exception.
Absent == [present |-> FALSE, text |-> <<>>]
Present(s) == [present |-> TRUE, text |-> s]
Size(h, w) == [raised |-> FALSE, height |-> h, width |-> w]
SizeRaised == [raised |-> TRUE, height |-> Absent, width |-> Absent]

\* `if height:` holds for a string that is not empty.
Truthy(v) == v.present /\ v.text # <<>>

\* Lines 152-164.  `height, width = parts.split('x')` raises ValueError
\* outside the try when the split does not give exactly two pieces.
extract_height_width(alt_text) ==
    LET pieces == Split(alt_text, "|", <<>>)
        parts == pieces[Len(pieces)]
        hw == Split(parts, "x", <<>>)
    IN  IF \E i \in 1..Len(parts) : parts[i] = "x"
        THEN IF Len(hw) # 2 THEN SizeRaised
             ELSE IF \/ (hw[1] # <<>> /\ ~IntParses(hw[1]))
                     \/ (hw[2] # <<>> /\ ~IntParses(hw[2]))
                  THEN Size(Absent, Absent)
                  ELSE Size(Present(hw[1]), Present(hw[2]))
        ELSE IF parts # <<>> /\ ~IntParses(parts)
             THEN Size(Absent, Absent)
             ELSE Size(Present(parts), Absent)

\* Lines 168-177: the literal pieces of the image tag.
ImageOpen == Chars("<ac:image")
HeightOpen == Chars(" ac:height=\"")
WidthOpen == Chars(" ac:width=\"")
Quote == Chars("\"")
ImageOpenEnd == Chars(">")
UrlOpen == Chars("<ri:url ri:value=\"")
AttachmentOpen == Chars("<ri:attachment ri:filename=\"")
ReferenceClose == Chars("\" />")
ImageClose == Chars("</ac:image>")

\* Lines 168-179: the tag for an image whose size hint was extracted.
ImageTag(src, size) ==
    ImageOpen
    \o (IF Truthy(size.height)
        THEN HeightOpen \o size.height.text \o Quote
        ELSE <<>>)
    \o (IF Truthy(size.width)
        THEN WidthOpen \o size.width.text \o Quote
        ELSE <<>>)
    \o ImageOpenEnd
    \o (IF is_external(src)
        THEN UrlOpen \o src \o ReferenceClose
        ELSE AttachmentOpen \o Basename(src) \o ReferenceClose)
    \o ImageClose

\* Line 178: what is appended to the attachments.
AppendedAttachment(src) == src

-----------------------------------------------------------------------------
(* ConfluenceRenderer.block_code, header, render_authors and layout.       *)

\* Lines 131-135: the literal pieces of the code macro.
CodeMacroOpen ==
    Chars("<ac:structured-macro ac:name=\"code\" ac:schema-version=\"1\">\n")
    \o Chars("    <ac:parameter ac:name=\"language\">")
CodeMacroBody ==
    Chars("</ac:parameter>\n")
    \o Chars("    <ac:plain-text-body><![CDATA[")
CodeMacroClose ==
    Chars("]]></ac:plain-text-body>\n")
    \o Chars("</ac:structured-macro>\n")

\* Lines 130-136.
block_code(code, lang) ==
    CodeMacroOpen \o lang \o CodeMacroBody \o code \o CodeMacroClose

\* mistune.Renderer.header, to which line 107 delegates.
DefaultHeader(text, level) ==
    <<"<", "h", level, ">">> \o text \o <<"<", "/", "h", level, ">", "\n">>

\* mistune.escape, which mistune's own renderer applies to text.
RECURSIVE Escape(_)
Escape(s) ==
    IF s = <<>> THEN <<>>
    ELSE (CASE Head(s) = "&" -> Chars("&amp;")
            [] Head(s) = "<" -> Chars("&lt;")
            [] Head(s) = ">" -> Chars("&gt;")
            [] OTHER -> <<Head(s)>>) \o Escape(Tail(s))

\* Lines 121-124: the literal pieces of one author's entry.
AuthorPicture ==
    Chars("<ac:structured-macro ac:name=\"profile-picture\" ac:schema-version=\"1\">\n")
    \o Chars("                <ac:parameter ac:name=\"User\"><ri:user ri:userkey=\"")
AuthorLink ==
    Chars("\" /></ac:parameter>\n")
    \o Chars("            </ac:structured-macro>&nbsp;\n")
    \o Chars("            <ac:link><ri:user ri:userkey=\"")
AuthorClose == Chars("\" /></ac:link>")

\* Lines 121-124, for one user key.
AuthorEntry(user_key) ==
    AuthorPicture \o user_key \o AuthorLink \o user_key \o AuthorClose

\* str.join
RECURSIVE Join(_, _)
Join(sep, items) ==
    IF items = <<>> THEN <<>>
    ELSE IF Len(items) = 1 THEN items[1]
    ELSE items[1] \o sep \o Join(sep, Tail(items))

\* Lines 125 and 128: the literal pieces of the authors section.
AuthorsOpen == Chars("<h1>Authors</h1><p>")
AuthorsSeparator == Chars("<br />")
AuthorsClose == Chars("</p>")

\* Lines 109-128.
render_authors(authorKeys) ==
    AuthorsOpen
    \o Join(AuthorsSeparator,
            [i \in 1..Len(authorKeys) |-> AuthorEntry(authorKeys[i])])
    \o AuthorsClose

\* Lines 77-82, dedented.
TocTemplate ==
    Chars("\n<h1>Table of Contents</h1>\n")
    \o Chars("<p><ac:structured-macro ac:name=\"toc\" ac:schema-version=\"1\">\n")
    \o Chars("    <ac:parameter ac:name=\"exclude\">^(Authors|Table of Contents)$</ac:parameter>\n")
    \o Chars("    <!-- <ac:parameter ac:name=\"outline\">true</ac:parameter> -->\n")
    \o Chars("</ac:structured-macro></p>")

\* Lines 85-86.
TocFragment(hasToc) == IF hasToc THEN TocTemplate ELSE <<>>

\* Lines 88-92, dedented: the literal pieces of the column macro.
ColumnHead ==
    Chars("\n<ac:structured-macro ac:name=\"column\" ac:schema-version=\"1\">\n")
    \o Chars("    <ac:parameter ac:name=\"width\">")
ColumnBody ==
    Chars("</ac:parameter>\n")
    \o Chars("    <ac:rich-text-body>")
ColumnTail ==
    Chars("</ac:rich-text-body>\n")
    \o Chars("</ac:structured-macro>")

\* Lines 94-95: the widths of the two columns.
SidebarWidth == Chars("30%")
MainWidth == Chars("800px")

\* Lines 88-92, dedented and formatted.
Column(width, body) ==
    ColumnHead \o width \o ColumnBody \o body \o ColumnTail

\* Lines 93-98 with the sidebar and the main column exchanged.
LayoutMainFirst(body, hasToc, authorKeys, withSidebar) ==
    IF withSidebar
    THEN Column(MainWidth, body)
         \o Column(SidebarWidth, TocFragment(hasToc) \o render_authors(authorKeys))
    ELSE TocFragment(hasToc) \o body \o render_authors(authorKeys)

\* Lines 59-98.
layout(body, hasToc, authorKeys, withSidebar) ==
    IF withSidebar
    THEN Column(SidebarWidth, TocFragment(hasToc) \o render_authors(authorKeys))
         \o Column(MainWidth, body)
    ELSE TocFragment(hasToc) \o body \o render_authors(authorKeys)


-----------------------------------------------------------------------------
(* The values the variables of a part hold while that part has not run.    *)

NoTokens == <<>>

RendererIdle ==
    /\ tokens = NoTokens
    /\ tk = 1
    /\ attachments = <<>>
    /\ authors = <<>>
    /\ has_toc = FALSE
    /\ sidebar = FALSE
    /\ content = <<>>
    /\ ret = <<>>
    /\ page_html = <<>>
    /\ out_attachments = <<>>
    /\ calls = 0
    /\ default_front_matter = EmptyMapping

-----------------------------------------------------------------------------
(* parse, line by line.                                                    *)

\* parse, lines 17-20: the buffers are empty, the block is open, the file's
\* lines are read.
ParseBegin(lines) ==
    /\ post = lines
    /\ idx = 1
    /\ raw_yaml = <<>>
    /\ markdown = <<>>
    /\ in_yaml = TRUE
    /\ front_matter = None
    /\ pc = "reading"

\* Lines 28 and 30: a line is added to a buffer.
AppendStripped(buffer, line) == buffer \o Strip(line)

AppendLine(buffer, line) == buffer \o line

\* One turn of the loop of parse, lines 21-30.
ReadLine ==
    /\ pc = "reading"
    /\ idx <= Len(post)
    /\ LET line == post[idx]
       IN  \/ /\ IsEndingTag(line, in_yaml, raw_yaml)
              /\ in_yaml' = FALSE
              /\ UNCHANGED <<raw_yaml, markdown>>
           \/ /\ ~IsEndingTag(line, in_yaml, raw_yaml)
              /\ in_yaml
              /\ raw_yaml' = AppendLine(raw_yaml, line)
              /\ UNCHANGED <<in_yaml, markdown>>
           \/ /\ ~IsEndingTag(line, in_yaml, raw_yaml)
              /\ ~in_yaml
              /\ markdown' = AppendLine(markdown, line)
              /\ UNCHANGED <<in_yaml, raw_yaml>>
    /\ idx' = idx + 1
    /\ UNCHANGED <<post, front_matter, pc, renderVars>>

\* parse, line 32: the body as returned.
BodyUnstripped(md) == md

StrippedBody(md) == Strip(md)

\* The end of parse, lines 31-33: the buffer is given to yaml.load, whose
\* exception leaves parse, and the body is stripped.
ParseReturn ==
    /\ pc = "reading"
    /\ idx > Len(post)
    /\ \E o \in yaml_load(raw_yaml) :
          \/ /\ o.raised
             /\ pc' = "YAMLError"
             /\ UNCHANGED <<front_matter, markdown>>
          \/ /\ ~o.raised
             /\ front_matter' = o.value
             /\ markdown' = StrippedBody(markdown)
             /\ pc' = "parsed"
    /\ UNCHANGED <<post, idx, raw_yaml, in_yaml, renderVars>>

\* The lines a file can hold: every line ends with a line end, except
\* possibly the last.
Lines ==
    {Chars("---\n"), Chars(" --- \n"), Chars("\n"), Chars("sidebar: true\n"),
     Chars("----\n")}
LastLines == {Chars("---"), Chars("x")}

Documents ==
    {d \in SeqsUpTo(Lines \cup LastLines, MaxLines) :
        \A i \in 1..Len(d) : i < Len(d) => d[i] \in Lines}

InitParse ==
    /\ \E d \in Documents : ParseBegin(d)
    /\ RendererIdle

NextParse == ReadLine \/ ParseReturn

SpecParse == InitParse /\ [][NextParse]_vars

-----------------------------------------------------------------------------
(* Claims about parse.                                                     *)

IsDelimiter(line) == Strip(line) = YAML_BOUNDARY
IsBlank(line) == Strip(line) = <<>>

\* The index of the first line of d[from..] that satisfies P, 0 when none does.
FirstFrom(d, from, P(_)) ==
    LET S == {i \in from..Len(d) : P(d[i])}
    IN  IF S = {} THEN 0 ELSE Min(S)

NotBlank(line) == ~IsBlank(line)

\* The document's first non-empty line is a delimiter and a second delimiter
\* follows it.
FirstContent(d) == FirstFrom(d, 1, NotBlank)
SecondDelimiter(d) == FirstFrom(d, FirstContent(d) + 1, IsDelimiter)
HasFrontMatterShape(d) ==
    /\ FirstContent(d) # 0
    /\ IsDelimiter(d[FirstContent(d)])
    /\ SecondDelimiter(d) # 0

\* C3, as claimed: for a document whose first non-empty line is `---` and
\* that holds a second `---`, parse yields the text between the two
\* delimiters (neither included) as metadata and the stripped text after the
\* second delimiter as body, blank lines before the first `---` or not.
C3_AsClaimed ==
    (pc = "parsed" /\ HasFrontMatterShape(post)) =>
        /\ raw_yaml = Concat(post, FirstContent(post) + 1, SecondDelimiter(post) - 1)
        /\ markdown = Strip(Concat(post, SecondDelimiter(post) + 1, Len(post)))

\* C3, amended: when the first `---` is the first line of the document, the
\* metadata buffer is that delimiter line followed by the text between the
\* two delimiters (the second delimiter not included) and the body is the
\* stripped text after the second delimiter; when blank lines precede the
\* first `---`, that first `---` ends the block: the metadata buffer is the
\* blank lines and the body is the stripped text after the first `---`.
C3_FrontMatterSplit ==
    (pc = "parsed" /\ HasFrontMatterShape(post)) =>
        IF FirstContent(post) = 1
        THEN /\ raw_yaml = Concat(post, 1, SecondDelimiter(post) - 1)
             /\ markdown = Strip(Concat(post, SecondDelimiter(post) + 1, Len(post)))
        ELSE /\ raw_yaml = Concat(post, 1, FirstContent(post) - 1)
             /\ markdown = Strip(Concat(post, FirstContent(post) + 1, Len(post)))

\* A parsed document with metadata lines between its two delimiters and a
\* body with blank lines around it.
C3_Witness ==
    /\ pc = "parsed"
    /\ HasFrontMatterShape(post)
    /\ FirstContent(post) = 1
    /\ SecondDelimiter(post) = 3
    /\ markdown # <<>>
    /\ markdown # Concat(post, 4, Len(post))

\* The index of the line that ends the metadata block among the first n
\* lines: the first delimiter line read while the metadata buffer, which
\* then holds all the lines before it, is not empty; 0 when there is none.
CloseIndex(n) ==
    LET S == {i \in 1..n : IsDelimiter(post[i]) /\ Concat(post, 1, i - 1) # <<>>}
    IN  IF S = {} THEN 0 ELSE Min(S)

C10_Buffers ==
    pc = "reading" =>
        LET n == idx - 1
            k == CloseIndex(n)
        IN  /\ in_yaml <=> (k = 0)
            /\ raw_yaml = Concat(post, 1, IF k = 0 THEN n ELSE k - 1)
            /\ markdown = IF k = 0 THEN <<>> ELSE Concat(post, k + 1, n)

C10_FlagStep == in_yaml' => in_yaml

\* C10: in parse the in-metadata flag starts true and, once false, is never
\* true again; it is false exactly from the first `---` line read while the
\* metadata buffer is not empty (a `---` read while it is empty is appended
\* to the metadata buffer); that closing line is in neither buffer, and
\* every other line is appended verbatim and in order to the metadata buffer
\* when read before the close and to the body buffer when read after it.
C10_ParseLoop == []C10_Buffers /\ [][C10_FlagStep]_vars

\* The loop has read a first-line `---` into the metadata buffer, closed the
\* block at a later `---`, and kept a third `---` in the body.
C10_Witness ==
    /\ pc = "reading"
    /\ ~in_yaml
    /\ IsDelimiter(post[1])
    /\ SubSeq(raw_yaml, 1, 3) = YAML_BOUNDARY
    /\ \E i \in 1..(idx - 1) : i > CloseIndex(idx - 1) /\ IsDelimiter(post[i])
    /\ Occurrences(markdown, YAML_BOUNDARY) # {}

-----------------------------------------------------------------------------
(* mistune.markdown, as far as it decides which callbacks run.             *)

StartsWith(s, pre) == OccursAt(s, pre, 1)

\* The inline constructs of a line of text: an image `![alt](src)` is given
\* to the image callback with the text between the parentheses as src and
\* the text between the brackets as alt text; what surrounds it is text.
RECURSIVE InlineTokens(_)
InlineTokens(text) ==
    LET opens == Occurrences(text, Chars("!["))
        open == IF opens = {} THEN 0 ELSE Min(opens)
        mids == {i \in Occurrences(text, Chars("](")) : i > open}
        mid == IF mids = {} THEN 0 ELSE Min(mids)
        closes == {i \in Occurrences(text, Chars(")")) : i > mid}
        close == IF closes = {} THEN 0 ELSE Min(closes)
    IN  IF text = <<>> THEN <<>>
        ELSE IF open = 0 \/ mid = 0 \/ close = 0 THEN <<OtherToken(text)>>
        ELSE (IF open > 1 THEN <<OtherToken(SubSeq(text, 1, open - 1))>> ELSE <<>>)
             \o <<ImageToken(SubSeq(text, mid + 2, close - 1),
                             SubSeq(text, open + 2, mid - 1))>>
             \o InlineTokens(SubSeq(text, close + 1, Len(text)))

\* The constructs of the lines of a body: `# text` is a header of level 1, a
\* blank line is none, any other line is inline text.
RECURSIVE BlockTokens(_)
BlockTokens(ls) ==
    IF ls = <<>> THEN <<>>
    ELSE (IF StartsWith(ls[1], Chars("# "))
          THEN <<HeaderToken(Strip(SubSeq(ls[1], 3, Len(ls[1]))), "1")>>
          ELSE InlineTokens(Strip(ls[1])))
         \o BlockTokens(Tail(ls))

\* Line 43: the callbacks mistune.markdown makes for a body, in document
\* order.
mistune_markdown(text) == BlockTokens(SplitLines(text))

-----------------------------------------------------------------------------
(* convtoconf and the renderer callbacks.                                  *)

\* Line 51.
AttachmentsKept(old) == old

NewAttachments(old) == <<>>

\* Line 106.
HasTocKept(old) == old

HasTocAfterHeader(old) == TRUE

\* A call convtoconf(markdown, front_matter), lines 36-42, with the
\* construction of the renderer, lines 50-57.  A front_matter that is not a
\* mapping has no get(): AttributeError leaves convtoconf.
Convtoconf(fm) ==
    LET given == IF fm.kind = "none" THEN EmptyMapping ELSE fm
        author_keys == IF "author_keys" \in given.keys
                       THEN given.author_keys
                       ELSE KeyList(<<>>)
        sidebarArg == IF "sidebar" \in given.keys THEN given.sidebar ELSE FALSE
    IN  /\ calls' = calls + 1
        /\ front_matter' = fm
        /\ page_html' = <<>>
        /\ out_attachments' = <<>>
        /\ IF given.kind # "map"
           THEN /\ pc' = "AttributeError"
                /\ UNCHANGED <<tokens, tk, rendererVars, content, ret>>
           ELSE /\ attachments' = NewAttachments(attachments)
                /\ authors' = IF author_keys.kind = "none"
                              THEN <<>>
                              ELSE author_keys.items
                /\ has_toc' = FALSE
                /\ sidebar' = sidebarArg
                /\ tokens' = NoTokens
                /\ tk' = 1
                /\ content' = <<>>
                /\ ret' = <<>>
                /\ pc' = "constructed"
        /\ UNCHANGED <<parseVars, default_front_matter>>

\* Line 43: mistune.markdown reads the body; its constructs are then
\* rendered one by one.
Markdown(body) ==
    /\ pc = "constructed"
    /\ tokens' = body
    /\ pc' = "rendering"
    /\ UNCHANGED <<parseVars, front_matter, tk, rendererVars, content, ret,
                   page_html, out_attachments, calls, default_front_matter>>

\* The callback for the next construct is due.
Due(kind) ==
    /\ pc = "rendering"
    /\ tk <= Len(tokens)
    /\ tokens[tk].kind = kind

\* mistune appends what a callback returns to the markup of the body.
Emit(fragment) ==
    /\ ret' = fragment
    /\ content' = content \o fragment
    /\ tk' = tk + 1

\* ConfluenceRenderer.header, lines 100-107.
Header ==
    /\ Due("header")
    /\ has_toc' = HasTocAfterHeader(has_toc)
    /\ Emit(DefaultHeader(tokens[tk].text, tokens[tk].level))
    /\ UNCHANGED <<parseVars, front_matter, pc, tokens, attachments, authors,
                   sidebar, page_html, out_attachments, calls,
                   default_front_matter>>

\* ConfluenceRenderer.block_code, lines 130-136.
BlockCode ==
    /\ Due("block_code")
    /\ Emit(block_code(tokens[tk].text, tokens[tk].alt))
    /\ UNCHANGED <<parseVars, front_matter, pc, tokens, rendererVars, page_html,
                   out_attachments, calls, default_front_matter>>

\* ConfluenceRenderer.image, lines 138-179.  The ValueError of
\* extract_height_width leaves image, mistune.markdown and convtoconf.
Image ==
    /\ Due("image")
    /\ LET src == tokens[tk].text
           size == extract_height_width(tokens[tk].alt)
       IN  IF size.raised
           THEN /\ pc' = "ValueError"
                /\ UNCHANGED <<attachments, ret, content, tk>>
           ELSE /\ Emit(ImageTag(src, size))
                /\ attachments' = IF is_external(src)
                                  THEN attachments
                                  ELSE Append(attachments, AppendedAttachment(src))
                /\ pc' = pc
    /\ UNCHANGED <<parseVars, front_matter, tokens, authors, has_toc, sidebar,
                   page_html, out_attachments, calls, default_front_matter>>

\* Any construct ConfluenceRenderer does not override: mistune.Renderer
\* renders it.
Other ==
    /\ Due("other")
    /\ Emit(Escape(tokens[tk].text))
    /\ UNCHANGED <<parseVars, front_matter, pc, tokens, rendererVars, page_html,
                   out_attachments, calls, default_front_matter>>

\* Lines 44-46: every construct is rendered; the layout is made and
\* convtoconf returns it with the renderer's attachments.
LayoutReturn ==
    /\ pc = "rendering"
    /\ tk > Len(tokens)
    /\ page_html' = layout(content, has_toc, authors, sidebar)
    /\ out_attachments' = attachments
    /\ pc' = "returned"
    /\ UNCHANGED <<parseVars, front_matter, tokens, tk, rendererVars, content,
                   ret, calls, default_front_matter>>

ParseIdle ==
    /\ post = <<>>
    /\ idx = 1
    /\ raw_yaml = <<>>
    /\ markdown = <<>>
    /\ in_yaml = TRUE
    /\ front_matter = None

-----------------------------------------------------------------------------
(* Convtoconf calls in a row, on the constructs of any body.               *)

BodyTokens ==
    {HeaderToken(Chars("T"), "1"),
     CodeToken(Chars("a"), <<>>),
     ImageToken(Chars("d/p.png"), Chars("c|10")),
     ImageToken(Chars("http://h/p.png"), Chars("7x9")),
     ImageToken(Chars("q.png"), Chars("1x2x3")),
     OtherToken(Chars("t"))}

Bodies == SeqsUpTo(BodyTokens, MaxTokens)

\* The front_matter values a caller that has them from parse can pass.
FrontMatters ==
    {None,
     NonMapping("str"),
     Mapping({"author_keys", "sidebar"}, NoKeys, TRUE),
     Mapping({"author_keys", "sidebar"}, KeyList(<<Chars("a1"), Chars("u2")>>), TRUE),
     Mapping({"author_keys"}, KeyList(<<Chars("u2"), Chars("a1")>>), FALSE)}

CanCall == pc = "idle" /\ calls < MaxCalls

ConvtoconfCall ==
    /\ CanCall
    /\ \E fm \in FrontMatters : Convtoconf(fm)

\* A call convtoconf(markdown): front_matter is the default argument, the
\* one dict made when the function was defined.
ConvtoconfDefault ==
    /\ CanCall
    /\ Convtoconf(default_front_matter)

\* The body of the call is any body.
MarkdownAny == \E body \in Bodies : Markdown(body)

\* The caller has the page and the attachment list, or the exception; the
\* frame of the call is gone.
Release ==
    /\ pc \in {"returned", "AttributeError", "ValueError"}
    /\ pc' = "idle"
    /\ tokens' = NoTokens
    /\ tk' = 1
    /\ content' = <<>>
    /\ ret' = <<>>
    /\ page_html' = <<>>
    /\ out_attachments' = <<>>
    /\ UNCHANGED <<parseVars, front_matter, rendererVars, calls,
                   default_front_matter>>

Init ==
    /\ ParseIdle
    /\ pc = "idle"
    /\ RendererIdle

Next ==
    \/ ConvtoconfCall
    \/ ConvtoconfDefault
    \/ MarkdownAny
    \/ Header
    \/ BlockCode
    \/ Image
    \/ Other
    \/ LayoutReturn
    \/ Release

Spec == Init /\ [][Next]_vars

-----------------------------------------------------------------------------
(* One callback, on any alt text or code.                                  *)

AltAlphabet == {"c", "|", "x", "1", "7"}
CodeAlphabet == {"a", "]", ">"}

CallbackTokens ==
    {ImageToken(src, altText) :
        src \in {Chars("d/p.png"), Chars("file:///p.png"), Chars("//h/p.png")},
        altText \in SeqsUpTo(AltAlphabet, MaxAlt)}
    \cup {CodeToken(code, lang) :
            code \in SeqsUpTo(CodeAlphabet, MaxCode),
            lang \in {<<>>, Chars("py")}}

\* A renderer as __init__ leaves it, lines 50-57, and one construct to render.
InitCallback ==
    /\ ParseIdle
    /\ pc = "rendering"
    /\ \E t \in CallbackTokens : tokens = <<t>>
    /\ tk = 1
    /\ attachments = <<>>
    /\ authors = <<>>
    /\ has_toc = FALSE
    /\ sidebar = FALSE
    /\ content = <<>>
    /\ ret = <<>>
    /\ page_html = <<>>
    /\ out_attachments = <<>>
    /\ calls = 1
    /\ default_front_matter = EmptyMapping

NextCallback == Image \/ BlockCode

SpecCallback == InitCallback /\ [][NextCallback]_vars

-----------------------------------------------------------------------------
(* The pipeline: parse, then convtoconf on what parse returned.            *)

MaxBodyLines == 3

FrontMatterLines ==
    {Chars("sidebar: true\n"), Chars("author_keys: [a1]\n"), Chars("hello\n")}

BodyLines ==
    {Chars("# Title\n"), Chars("\n"), Chars("Hello ![img|100](local.png)\n")}
LastBodyLines == {Chars("Hello ![img](local.png|100)")}

PipelineBodies ==
    {b \in SeqsUpTo(BodyLines \cup LastBodyLines, MaxBodyLines) :
        \A i \in 1..Len(b) : i < Len(b) => b[i] \in BodyLines}

PipelineDocuments ==
    {b : b \in PipelineBodies}
    \cup {<<Chars("---\n")>> \o fm \o <<Chars("---\n")>> \o b :
            fm \in SeqsUpTo(FrontMatterLines, 2), b \in PipelineBodies}

\* Line 43-44 of a caller: convtoconf(markdown, front_matter) with what parse
\* returned.
ConvtoconfParsed ==
    /\ pc = "parsed"
    /\ Convtoconf(front_matter)

\* The body of the call is the body parse returned.
MarkdownParsed == Markdown(mistune_markdown(markdown))

InitPipeline ==
    /\ \E d \in PipelineDocuments : ParseBegin(d)
    /\ RendererIdle

NextPipeline ==
    \/ ReadLine
    \/ ParseReturn
    \/ ConvtoconfParsed
    \/ MarkdownParsed
    \/ Header
    \/ Image
    \/ Other
    \/ LayoutReturn

SpecPipeline == InitPipeline /\ [][NextPipeline]_vars

-----------------------------------------------------------------------------
(* Claims about the renderer and convtoconf.                               *)

Contains(s, pat) == Occurrences(s, pat) # {}

\* The constructs whose callbacks have been invoked in this call: the one at
\* tk too when its callback raised.
Invoked ==
    IF pc = "ValueError" THEN SubSeq(tokens, 1, tk) ELSE SubSeq(tokens, 1, tk - 1)

HeaderInvoked == \E i \in 1..Len(Invoked) : Invoked[i].kind = "header"

TocMacro == Chars("<ac:structured-macro ac:name=\"toc\"")

\* C1: during and after the callbacks of a call has_toc is true exactly when
\* a header callback has been invoked, and the markup layout returns holds
\* the table-of-contents macro exactly when has_toc is true, whatever the
\* sidebar flag and the authors.
C1_TocIffHeader ==
    /\ pc \in {"rendering", "returned", "ValueError"} =>
          (has_toc <=> HeaderInvoked)
    /\ pc = "returned" => (Contains(page_html, TocMacro) <=> has_toc)

\* A page with a sidebar and authors was laid out after a header, whose
\* callback was followed by others.
C1_Witness ==
    /\ pc = "returned"
    /\ has_toc
    /\ sidebar
    /\ authors # <<>>
    /\ tokens[1].kind = "header"
    /\ Len(tokens) = 3
    /\ Contains(page_html, TocMacro)

\* The src values of the images among ts whose src has an empty network
\* location, in order, duplicates kept.
RECURSIVE LocalSources(_)
LocalSources(ts) ==
    IF ts = <<>> THEN <<>>
    ELSE (IF ts[1].kind = "image" /\ Netloc(ts[1].text) = <<>>
          THEN <<ts[1].text>>
          ELSE <<>>) \o LocalSources(Tail(ts))

\* C2, as claimed: after any sequence of callbacks the attachments are
\* exactly the src values of the images invoked so far whose src has an empty
\* network location, in order and with duplicates; no other callback and no
\* image with a network location changes the list.
C2_AsClaimed ==
    pc \in {"rendering", "returned", "ValueError"} =>
        attachments = LocalSources(Invoked)

\* C2 for the image callbacks that return: the list is as claimed as long as
\* no image callback has raised.
C2_WhenImageReturns ==
    pc \in {"rendering", "returned"} => attachments = LocalSources(Invoked)

ColumnMacro == Chars("<ac:structured-macro ac:name=\"column\"")
AuthorsHeading == Chars("<h1>Authors</h1>")

\* The authors fragment the claim describes: the heading, then the entries
\* in the given order with a line break between two of them.
RECURSIVE ClaimedEntries(_, _)
ClaimedEntries(keys, i) ==
    IF i > Len(keys) THEN <<>>
    ELSE (IF i > 1 THEN Chars("<br />") ELSE <<>>)
         \o AuthorEntry(keys[i]) \o ClaimedEntries(keys, i + 1)

ClaimedAuthors(keys) ==
    AuthorsHeading \o Chars("<p>") \o ClaimedEntries(keys, 1) \o Chars("</p>")

ClaimedToc(hasToc) == IF hasToc THEN TocTemplate ELSE <<>>

\* The one place at which pat occurs in s, 0 when it occurs nowhere or twice.
OnlyAt(s, pat) ==
    LET O == Occurrences(s, pat)
    IN  IF Cardinality(O) = 1 THEN CHOOSE i \in O : TRUE ELSE 0

ColumnOpen(width) ==
    ColumnMacro \o Chars(" ac:schema-version=\"1\">\n    <ac:parameter ac:name=\"width\">")
    \o width \o Chars("</ac:parameter>\n    <ac:rich-text-body>")
ColumnClose == Chars("</ac:rich-text-body>\n</ac:structured-macro>")
SidebarOpen == ColumnOpen(Chars("30%"))
MainOpen == ColumnOpen(Chars("800px"))

GivenAuthors(fm) ==
    IF fm.kind = "map" /\ "author_keys" \in fm.keys /\ fm.author_keys.kind = "list"
    THEN fm.author_keys.items
    ELSE <<>>
GivenSidebar(fm) == fm.kind = "map" /\ "sidebar" \in fm.keys /\ fm.sidebar

\* C9: every call starts from a fresh render state and its results depend on
\* its own arguments only: the renderer starts without attachments and
\* without TOC, has the authors and the sidebar flag of this call's front
\* matter, the list returned holds the local image sources of this call's
\* body only and the page holds the TOC macro exactly when this call's body
\* has a header; the default front matter stays empty.
C9_FreshState ==
    /\ default_front_matter = EmptyMapping
    /\ (pc = "constructed" \/ (pc = "rendering" /\ tk = 1)) =>
          (attachments = <<>> /\ ~has_toc)
    /\ pc \in {"constructed", "rendering", "returned"} =>
          /\ authors = GivenAuthors(front_matter)
          /\ sidebar = GivenSidebar(front_matter)
    /\ pc = "returned" =>
          /\ out_attachments = LocalSources(tokens)
          /\ Contains(page_html, TocMacro) <=>
                (\E i \in 1..Len(tokens) : tokens[i].kind = "header")

\* A second call, on a body without header and without local image, has
\* returned.
C9_Witness ==
    /\ pc = "returned"
    /\ calls = 2
    /\ out_attachments = <<>>
    /\ ~Contains(page_html, TocMacro)
    /\ tokens # <<>>

-----------------------------------------------------------------------------
(* Claims about one callback.                                              *)

ImageInvoked == tokens[1].kind = "image" /\ (tk = 2 \/ pc = "ValueError")

\* The size hint as the claim describes it: the segment after the last `|`,
\* cut at its first `x`.
ClaimedSegment(altText) ==
    LET bars == {i \in 1..Len(altText) : altText[i] = "|"}
    IN  IF bars = {} THEN altText
        ELSE SubSeq(altText, Max(bars) + 1, Len(altText))
ClaimedHeight(seg) ==
    IF FirstIn(seg, {"x"}) = 0 THEN seg ELSE SubSeq(seg, 1, FirstIn(seg, {"x"}) - 1)
ClaimedWidth(seg) ==
    IF FirstIn(seg, {"x"}) = 0 THEN <<>>
    ELSE SubSeq(seg, FirstIn(seg, {"x"}) + 1, Len(seg))
ClaimedParses(seg) ==
    /\ ClaimedHeight(seg) = <<>> \/ IntParses(ClaimedHeight(seg))
    /\ ClaimedWidth(seg) = <<>> \/ IntParses(ClaimedWidth(seg))

HeightAttribute == Chars(" ac:height=\"")
WidthAttribute == Chars(" ac:width=\"")

\* The tag carries exactly the attributes of the hint the claim describes.
TagAsClaimed(tag, altText) ==
    LET seg == ClaimedSegment(altText)
        h == ClaimedHeight(seg)
        w == ClaimedWidth(seg)
    IN  IF ClaimedParses(seg)
        THEN /\ Contains(tag, HeightAttribute) <=> h # <<>>
             /\ h # <<>> => Contains(tag, HeightAttribute \o h \o Chars("\""))
             /\ Contains(tag, WidthAttribute) <=> w # <<>>
             /\ w # <<>> => Contains(tag, WidthAttribute \o w \o Chars("\""))
        ELSE /\ ~Contains(tag, HeightAttribute)
             /\ ~Contains(tag, WidthAttribute)

\* C4, as claimed: for every alt text the image callback raises nothing and
\* returns a tag; the segment after the last `|` is cut at its first `x`
\* into height and width (height alone without an `x`); when every non-empty
\* component parses as an integer the tag carries exactly those attributes,
\* and when one does not (`abc`, or more than one `x`) it carries neither.
C4_AsClaimed ==
    ImageInvoked =>
        /\ pc # "ValueError"
        /\ TagAsClaimed(ret, tokens[1].alt)

SeveralX(seg) == Cardinality({i \in 1..Len(seg) : seg[i] = "x"}) > 1

\* C4 but for the segments with more than one `x`: the callback raises for
\* those and for no other, and every tag it returns is as claimed.
C4_ExceptSeveralX ==
    ImageInvoked =>
        /\ pc = "ValueError" <=> SeveralX(ClaimedSegment(tokens[1].alt))
        /\ pc # "ValueError" => TagAsClaimed(ret, tokens[1].alt)

CodeInvoked == tokens[1].kind = "block_code" /\ tk = 2

CdataOpen == Chars("<![CDATA[")
CdataClose == Chars("]]>")
BodyClose == Chars("</ac:plain-text-body>")

\* The code macro keeps the code inside its wrapper: the first terminator
\* after the wrapper's start is the macro's own, the one the end of the body
\* element follows, and what the wrapper holds is the code.
CodeIsOpaque(fragment, code) ==
    LET open == Min(Occurrences(fragment, CdataOpen))
        first == Min({i \in Occurrences(fragment, CdataClose) : i > open})
    IN  /\ OccursAt(fragment, BodyClose, first + Len(CdataClose))
        /\ SubSeq(fragment, open + Len(CdataOpen), first - 1) = code

\* C7, as claimed: for every code text, also one that holds `]]>`, the first
\* terminator of the wrapper in the emitted macro is the macro's own closing
\* one and no part of the code is outside the wrapper.
C7_AsClaimed == CodeInvoked => CodeIsOpaque(ret, tokens[1].text)

\* C7 for the code texts that do not hold the terminator.
C7_WithoutTerminator ==
    (CodeInvoked /\ ~Contains(tokens[1].text, CdataClose)) =>
        CodeIsOpaque(ret, tokens[1].text)

-----------------------------------------------------------------------------
(* Claims about the pipeline.                                              *)

\* C5, as claimed: whatever yaml.load makes of the metadata buffer, parse
\* followed by convtoconf does not abort; metadata that is absent,
\* unparsable or no mapping counts as an empty mapping, with no authors and
\* no sidebar.
C5_AsClaimed ==
    /\ pc \notin {"YAMLError", "AttributeError"}
    /\ (pc \in {"constructed", "rendering", "returned"} /\ front_matter.kind # "map") =>
          (authors = <<>> /\ ~sidebar)

\* C5 for the metadata that is a mapping or absent: convtoconf reads the
\* defaults and goes on.
C5_MappingOrNone ==
    (pc \in {"constructed", "rendering", "returned"}) =>
        /\ front_matter.kind \in {"map", "none"}
        /\ authors = GivenAuthors(front_matter)
        /\ sidebar = GivenSidebar(front_matter)

ScenarioDocument ==
    <<Chars("---\n"), Chars("sidebar: true\n"), Chars("author_keys: [a1]\n"),
      Chars("---\n"), Chars("# Title\n"), Chars("\n"),
      Chars("Hello ![img](local.png|100)")>>

\* The document with the size hint in the alt text.
ScenarioAltHint ==
    <<Chars("---\n"), Chars("sidebar: true\n"), Chars("author_keys: [a1]\n"),
      Chars("---\n"), Chars("# Title\n"), Chars("\n"),
      Chars("Hello ![img|100](local.png)\n")>>

TimesIn(list, x) == Cardinality({i \in 1..Len(list) : list[i] = x})

TocAndTwoColumns ==
    /\ Contains(page_html, TocMacro)
    /\ Cardinality(Occurrences(page_html, ColumnMacro)) = 2

\* C8, as claimed: the scenario document gives markup with a TOC macro, two
\* columns and an attachment reference to `local.png` with height `100`, and
\* an attachment list that holds `local.png` once.
C8_AsClaimed ==
    (post = ScenarioDocument /\ pc = "returned") =>
        /\ TocAndTwoColumns
        /\ Contains(page_html,
              Chars("<ac:image ac:height=\"100\"><ri:attachment ri:filename=\"local.png\" />"))
        /\ TimesIn(out_attachments, Chars("local.png")) = 1

\* C8, amended: the scenario document gives markup with a TOC macro, two
\* columns and an attachment reference to `local.png|100` without height,
\* and the attachment list holds `local.png|100` once and nothing else: the
\* text between the parentheses is the src, and the size hint is read from
\* the alt text.  The document with `![img|100](local.png)` gives what the
\* claim describes.  Neither conversion raises.
C8_Scenario ==
    /\ post \in {ScenarioDocument, ScenarioAltHint} =>
          pc \notin {"YAMLError", "AttributeError", "ValueError"}
    /\ (post = ScenarioDocument /\ pc = "returned") =>
          /\ TocAndTwoColumns
          /\ Contains(page_html,
                Chars("<ac:image><ri:attachment ri:filename=\"local.png|100\" />"))
          /\ ~Contains(page_html, HeightAttribute)
          /\ out_attachments = <<Chars("local.png|100")>>
    /\ (post = ScenarioAltHint /\ pc = "returned") =>
          /\ TocAndTwoColumns
          /\ Contains(page_html,
                Chars("<ac:image ac:height=\"100\"><ri:attachment ri:filename=\"local.png\" />"))
          /\ out_attachments = <<Chars("local.png")>>

\* The scenario document was converted.
C8_Witness ==
    /\ post = ScenarioDocument
    /\ pc = "returned"
    /\ sidebar
    /\ authors = <<Chars("a1")>>
    /\ Len(tokens) = 3

====
